---- MODULE Spec2Model ----
(***************************************************************************)
(* Request handlers of wp-scriptgen: the eleven handler variants found in  *)
(* netlify/functions/generate-script.mjs and in the unnamed source parts,  *)
(* modelled as one state machine that serves one inbound request.          *)
(*                                                                         *)
(* Texts are sequences of tokens.  User data is made of one-character      *)
(* tokens; the literal chunks of a template are opaque tokens.  A template *)
(* literal is the concatenation (\o) of its chunks and interpolations.     *)
(***************************************************************************)
EXTENDS Integers, Sequences, FiniteSets, TLC

VARIABLES
    variant,      \* which handler is deployed
    env,          \* configuration read at load time
    pc,           \* position of the handler in its request
    request,      \* the inbound request (method, origin, body)
    scraped,      \* results of the scraping passes
    prompt,       \* the prompt sent to the completion API
    script,       \* the script text the handler derived from the completion
    response,     \* the response returned to the platform
    calls,        \* outbound calls issued during the request
    mail,         \* the message handed to transporter.sendMail
    bg,           \* the emailScript task handed to context.waitUntil
    raised,       \* the step that threw an exception into the handler
    replies,      \* what the outbound calls of the request were answered
    scriptSections, \* what parseScript made of the script text
    scriptHTML,   \* what renderScriptMap made of the sections: the rows of its table
    suspended     \* the other invocation running on the same function instance

vars == <<variant, env, pc, request, scraped, prompt, script, response, calls, mail, bg,
          raised, replies, scriptSections, scriptHTML, suspended>>

(***************************************************************************)
(* The handler variants.                                                   *)
(***************************************************************************)
Variants ==
    { "gs1",   \* generate-script.mjs 72-248
      "gs2",   \* generate-script.mjs 321-577
      "gs3",   \* generate-script.mjs 670-750
      "p0a",   \* part_000 72-247
      "p0b",   \* part_000 345-416
      "p0c",   \* part_000 489-586
      "p1",    \* part_001 115-195
      "p2a",   \* part_002 142-339
      "p2b",   \* part_002 388-459
      "p3a",   \* part_003 10-79
      "p3b" }  \* part_003 172-243

\* export default async (req, context): Response objects, corsHeaders, waitUntil
IsDefaultHandler(v) == v \in {"gs3", "p1"}

\* handlers that begin with  if (event.httpMethod === "OPTIONS")
HasOptionsBranch(v) == v \notin {"p0b", "p3b"}

\* handlers that call scrapeWebsite(website) under  if (website)
UsesScrapeWebsite(v) == v \in {"gs1", "gs2", "p0a", "p0c", "p2a", "p2b"}

\* handlers that call scrapeSite(website)
UsesScrapeSite(v) == v \in {"gs3", "p1", "p0b", "p3b"}

\* handlers that call scrapeLinkedIn(linkedin)
UsesScrapeLinkedIn(v) == v \in {"p0b", "p3b"}

\* handlers that  await sendEmail(...)  inside the try block
AwaitsSendEmail(v) == v \in {"gs1", "gs2", "p0a", "p0c", "p2a"}

(***************************************************************************)
(* Texts.                                                                  *)
(***************************************************************************)
Empty == << >>

IsWhitespace(t) == t \in {" ", "\n", "\t"}

NonWhitespace(s) == { i \in 1..Len(s) : ~IsWhitespace(s[i]) }

SetMin(S) == CHOOSE i \in S : \A j \in S : i <= j
SetMax(S) == CHOOSE i \in S : \A j \in S : i >= j

\* String.prototype.trimStart, trimEnd
TrimStart(s) ==
    IF NonWhitespace(s) = {} THEN Empty ELSE SubSeq(s, SetMin(NonWhitespace(s)), Len(s))

TrimEnd(s) ==
    IF NonWhitespace(s) = {} THEN Empty ELSE SubSeq(s, 1, SetMax(NonWhitespace(s)))

\* String.prototype.trim
Trim(s) == TrimEnd(TrimStart(s))

\* s.includes(t)
Contains(s, t) ==
    \E i \in 0..(Len(s) - Len(t)) : SubSeq(s, i + 1, i + Len(t)) = t

(***************************************************************************)
(* The request body: a JSON object, as a function from the fields present  *)
(* to their values.  linkedin stands for linkedin_url / linkedin and about *)
(* for about / notes, which no variant reads together.                     *)
(***************************************************************************)
Fields == {"business_name", "website", "linkedin", "email", "about"}

FieldValues(f) ==
    CASE f = "business_name" -> { <<"A", "c", "m", "e">> }
      [] f = "website"       -> { Empty, <<"w", ".", "e", "x">> }
      [] f = "linkedin"      -> { <<"l", "i", ".", "e", "x">> }
      [] f = "email"         -> { Empty, <<"a", "@", "b">> }
      [] f = "about"         -> { <<"w", "e", " ", " ", "d", "o">> }

AllFieldValues == UNION { FieldValues(f) : f \in Fields }

BodiesOver(S) == { b \in [S -> AllFieldValues] : \A f \in S : b[f] \in FieldValues(f) }

Bodies == UNION { BodiesOver(S) : S \in SUBSET Fields }

\* the value of a destructured field is falsy when the field is absent or ""
Truthy(body, f) == f \in DOMAIN body /\ body[f] # Empty

\* body.f || dflt
OrElse(body, f, dflt) == IF Truthy(body, f) THEN body[f] ELSE dflt

(***************************************************************************)
(* String helpers of the scrapers and of the prompt builders.              *)
(***************************************************************************)
Min(a, b) == IF a < b THEN a ELSE b

\* s.slice(0, n)
Slice(s, n) == SubSeq(s, 1, Min(n, Len(s)))

\* parts.join(sep)
RECURSIVE Join(_, _)
Join(parts, sep) ==
    IF parts = << >> THEN Empty
    ELSE IF Len(parts) = 1 THEN parts[1]
    ELSE parts[1] \o sep \o Join(Tail(parts), sep)

\* two collapsed halves meet in at most one run of whitespace
MeetHalves(l, r) ==
    IF l[Len(l)] = " " /\ r[1] = " " THEN l \o Tail(r) ELSE l \o r

RECURSIVE CollapseWhitespace(_)
\* s is collapsed half by half; each collapsed half is bound once
CollapseHalves(s) ==
    IF Len(s) = 0 THEN Empty
    ELSE IF Len(s) = 1 THEN (IF IsWhitespace(s[1]) THEN <<" ">> ELSE s)
    ELSE CHOOSE out \in { MeetHalves(l, r) :
                            l \in {CollapseWhitespace(SubSeq(s, 1, Len(s) \div 2))},
                            r \in {CollapseWhitespace(SubSeq(s, Len(s) \div 2 + 1, Len(s)))} } : TRUE

\* s.replace(/\s+/g, " "): each run of whitespace becomes one space
CollapseWhitespace(v) == CHOOSE out \in { CollapseHalves(s) : s \in {v} } : TRUE

\* s.split(",")
RECURSIVE SplitComma(_, _)
SplitComma(s, cur) ==
    IF s = Empty THEN <<cur>>
    ELSE IF Head(s) = "," THEN <<cur>> \o SplitComma(Tail(s), Empty)
    ELSE SplitComma(Tail(s), cur \o <<Head(s)>>)

\* const safe = (v, n = 1200) => (v || "").toString().replace(/\s+/g, " ").slice(0, n)
\* function safe(text, max = 1000) { if (!text) return ""; ... }
safe(v, n) == Slice(CollapseWhitespace(v), n)

safeDefaultMax(v) == IF IsDefaultHandler(v) THEN 1200 ELSE 1000

(***************************************************************************)
(* The section parser of part_002.                                         *)
(***************************************************************************)
SectionNames == <<"HOOK", "PROBLEM", "SOLUTION", "TRUST", "CLOSE">>

Label(n) ==
    CASE n = 1 -> <<"H", "O", "O", "K">>
      [] n = 2 -> <<"P", "R", "O", "B", "L", "E", "M">>
      [] n = 3 -> <<"S", "O", "L", "U", "T", "I", "O", "N">>
      [] n = 4 -> <<"T", "R", "U", "S", "T">>
      [] n = 5 -> <<"C", "L", "O", "S", "E">>

\* the i flag of the regular expression: letters match in either case
Upper(c) ==
    CASE c = "h" -> "H" [] c = "o" -> "O" [] c = "k" -> "K" [] c = "p" -> "P"
      [] c = "r" -> "R" [] c = "b" -> "B" [] c = "l" -> "L" [] c = "e" -> "E"
      [] c = "m" -> "M" [] c = "s" -> "S" [] c = "u" -> "U" [] c = "t" -> "T"
      [] c = "i" -> "I" [] c = "n" -> "N" [] c = "c" -> "C" [] OTHER -> c

\* the least element of S, none when S is empty
FirstOf(S, none) == IF S = {} THEN none ELSE SetMin(S)

\* (HOOK|PROBLEM|SOLUTION|TRUST|CLOSE) at position i: the alternative that
\* matches there, 0 when none does
LabelAt(raw, i) ==
    FirstOf({ n \in 1..5 :
                /\ i >= 1 /\ i + Len(Label(n)) - 1 <= Len(raw)
                /\ \A k \in 1..Len(Label(n)) : Upper(raw[i + k - 1]) = Label(n)[k] }, 0)

NoMatch == [found |-> FALSE, key |-> 0, from |-> 0, body |-> Empty, end |-> 0]

\* the match of rx that starts at position i, if there is one:
\*   label, [^\n]* up to the first newline, \n+ over the newlines that follow,
\*   ([\s\S]*?) up to the first place followed by \n and a label, or to the end
MatchAt(raw, i) ==
    LET n == LabelAt(raw, i)
        nl == IF n = 0 THEN 0
              ELSE FirstOf({ k \in (i + Len(Label(n)))..Len(raw) : raw[k] = "\n" }, 0)
        start == FirstOf({ k \in nl..Len(raw) : raw[k] # "\n" }, Len(raw) + 1)
        stop == FirstOf({ k \in start..Len(raw) :
                            raw[k] = "\n" /\ LabelAt(raw, k + 1) # 0 }, Len(raw) + 1)
    IN  IF nl = 0 THEN NoMatch
        ELSE [found |-> TRUE, key |-> n, from |-> start,
              body |-> SubSeq(raw, start, stop - 1), end |-> stop]

\* rx.exec(raw) with rx.lastIndex at position from: the leftmost match
Exec(raw, from) ==
    LET first == FirstOf({ i \in from..Len(raw) : MatchAt(raw, i).found }, 0)
    IN  IF first = 0 THEN NoMatch ELSE MatchAt(raw, first)

NoSections == [k \in 1..5 |-> Empty]

\* a scan that resumes where the captured body starts
resumeAtBody(m) == m.from

\* rx.lastIndex after the match m: the end of the match, which is the end of
\* the captured body (the lookahead consumes nothing)
resumeAt(m) == m.end

\* while ((m = rx.exec(raw))) { sections[key] = (m[2] || "").trim() }
RECURSIVE ScanSections(_, _, _)
\* one turn of the loop on the match m
ScanStep(raw, sections, m) ==
    IF ~m.found THEN sections
    ELSE ScanSections(raw, resumeAt(m), [sections EXCEPT ![m.key] = Trim(m.body)])

ScanSections(raw, from, sections) == ScanStep(raw, sections, Exec(raw, from))

\* a parser without the fallback
parseScriptNoFallback(raw) == ScanSections(raw, 1, NoSections)

\* function parseScript(raw = ""): the five sections, by position in SectionNames
parseScript(raw) ==
    LET sections == ScanSections(raw, 1, NoSections)
    IN  IF \A k \in 1..5 : sections[k] = Empty
        THEN [sections EXCEPT ![3] = Trim(raw)]
        ELSE sections

\* the placeholder of an empty section: an em dash
Dash == <<"-">>

\* a renderer that prints the section as it is
copyAsIs(given, k) == IF k \in DOMAIN given THEN given[k] ELSE Empty

\* sections.HOOK || Dash: the copy of a row, the dash when missing or empty
copyOf(given, k) ==
    IF k \in DOMAIN given /\ given[k] # Empty THEN given[k] ELSE Dash

Times == <<"0-8s", "8-18s", "18-36s", "36-48s", "48-60s">>

\* const row = (emoji, title, time, copy) => `<tr> ... </tr>`
row(title, time, copy) == [title |-> title, time |-> time, copy |-> copy]

NoRows == << >>

\* function renderScriptMap(sections): the rows of the table, top to bottom
renderScriptMap(given) ==
    << row("HOOK", Times[1], copyOf(given, 1)),
       row("PROBLEM", Times[2], copyOf(given, 2)),
       row("SOLUTION", Times[3], copyOf(given, 3)),
       row("TRUST", Times[4], copyOf(given, 4)),
       row("CLOSE", Times[5], copyOf(given, 5)) >>

(***************************************************************************)
(* Web pages, as the sequence of the elements the selectors can see, in    *)
(* document order.  text is $(el).text(), content is $(el).attr("content") *)
(* (Empty when the element has none).                                      *)
(***************************************************************************)
Repeat(t, n) == [i \in 1..n |-> t]

Element(tag, text, content) == [tag |-> tag, text |-> text, content |-> content]

LongParagraph == Repeat("x", 31)
ShortParagraph == <<"h", "i">>
PaddedParagraph == <<" ">> \o Repeat("y", 30) \o <<"\n">>

\* the number of paragraphs of the long page: more than the extractor keeps
MaxParagraphs == 32

Letters ==
    << "a", "b", "c", "d", "e", "f", "g", "h", "i", "j", "k", "l", "m", "n", "o", "p", "q",
       "r", "s", "t", "u", "v", "w", "A", "B", "C", "D", "E", "F", "G", "H", "I", "J", "K" >>

\* a page of MaxParagraphs distinct paragraphs, each long enough to be kept
LongPage == [i \in 1..MaxParagraphs |-> Element("p", <<Letters[i]>> \o Repeat("z", 30), Empty)]

Pages ==
    { << >>,
      << Element("title", <<"T">>, Empty),
         Element("meta-description", Empty, Repeat("d", 32)),
         Element("meta-keywords", Empty, <<"k", ",", " ", "m">>),
         Element("h1", ShortParagraph, Empty),
         Element("p", LongParagraph, Empty),
         Element("p", PaddedParagraph, Empty) >> }

\* a website fetch either rejects (unreachable host, timeout) or yields a page
FetchReplies ==
    { [ok |-> FALSE, page |-> << >>] } \cup { [ok |-> TRUE, page |-> p] : p \in Pages }

Select(page, tags) == SelectSeq(page, LAMBDA el : el.tag \in tags)

\* $(sel).first().text() / $(sel).attr("content"): of the first match, or empty
FirstText(page, tag) ==
    LET m == Select(page, {tag}) IN IF m = << >> THEN Empty ELSE m[1].text

FirstContent(page, tag) ==
    LET m == Select(page, {tag}) IN IF m = << >> THEN Empty ELSE m[1].content

\* scrapeWebsite: the fragments kept, before the cap and the join
textParts(page) ==
    LET els == Select(page, {"h1", "h2", "h3", "p", "meta-description"})
        content(el) == IF el.text # Empty THEN el.text ELSE el.content
        kept == SelectSeq(els, LAMBDA el : content(el) # Empty /\ Len(Trim(content(el))) > 30)
    IN  [i \in 1..Len(kept) |-> Trim(content(kept[i]))]

ScrapeErrorText == <<"Error scraping site: ", "fetch failed">>

\* async function scrapeWebsite(url): the string it resolves to
scrapeWebsite(reply) ==
    IF reply.ok
    THEN Join(SubSeq(textParts(reply.page), 1, Min(30, Len(textParts(reply.page)))),
              <<"\n", "\n">>)
    ELSE ScrapeErrorText

NoProfile == [summary |-> Empty, points |-> << >>]

\* async function scrapeSite(url), after the fetch: the object it resolves to
scrapeSite(v, reply) ==
    IF ~reply.ok THEN NoProfile
    ELSE LET page == reply.page
             desc == IF FirstContent(page, "meta-description") # Empty
                     THEN FirstContent(page, "meta-description")
                     ELSE FirstContent(page, "og:description")
             h1 == FirstText(page, "h1")
             ps == Select(page, {"p"})
         IN  IF IsDefaultHandler(v)
             THEN LET title == IF FirstContent(page, "og:title") # Empty
                               THEN FirstContent(page, "og:title")
                               ELSE FirstText(page, "title")
                      nonEmpty == SelectSeq(ps, LAMBDA el : el.text # Empty)
                      first6 == SubSeq(nonEmpty, 1, Min(6, Len(nonEmpty)))
                      paragraphs == Join([i \in 1..Len(first6) |-> first6[i].text], <<" ">>)
                      kw == FirstContent(page, "meta-keywords")
                      kws == SplitComma(kw, Empty)
                      first5 == SubSeq(kws, 1, Min(5, Len(kws)))
                  IN  [summary |-> Slice(CollapseWhitespace(
                                      Join(<<title, desc, h1, paragraphs>>, <<" ">>)), 2000),
                       points |-> IF kw = Empty THEN << >>
                                  ELSE [i \in 1..Len(first5) |-> Trim(first5[i])]]
             ELSE LET title == FirstText(page, "title")
                      first3 == SubSeq(ps, 1, Min(3, Len(ps)))
                      paragraphs == Join([i \in 1..Len(first3) |-> first3[i].text], <<" ">>)
                  IN  [summary |-> CollapseWhitespace(
                                      Join(<<title, desc, h1, paragraphs>>, <<" ">>)),
                       points |-> <<title, desc, h1>>]

\* async function scrapeLinkedIn(url), after the fetch
scrapeLinkedIn(reply) ==
    IF ~reply.ok THEN NoProfile
    ELSE LET page == reply.page
             title == FirstText(page, "title")
             desc == IF FirstContent(page, "meta-description") # Empty
                     THEN FirstContent(page, "meta-description")
                     ELSE FirstContent(page, "og:description")
         IN  [summary |-> Slice(CollapseWhitespace(Join(<<title, desc>>, <<" ">>)), 2000),
              points |-> <<title, desc>>]

(***************************************************************************)
(* Configuration.  ALLOWED_ORIGINS is the comma-separated list of the      *)
(* environment, as the sequence of its entries (Empty when unset).         *)
(***************************************************************************)
OriginA == "https://a.example"
OriginEvil == "https://evil.example"

AllowedOriginsSettings == { Empty, <<OriginA>>, <<OriginA, "*">> }

\* OPENROUTER_API_KEY and SMTP_HOST are read into constants by the default
\* handlers only; the other variants pass process.env values straight on.
Envs(v) ==
    IF IsDefaultHandler(v)
    THEN [apiKey : BOOLEAN, smtpHost : BOOLEAN, allowedOrigins : AllowedOriginsSettings]
    ELSE [apiKey : {TRUE}, smtpHost : {TRUE}, allowedOrigins : AllowedOriginsSettings]

\* const ALLOWED_ORIGINS = (env || "*").split(",").map(s => s.trim()).filter(Boolean)
ALLOWED_ORIGINS(e) ==
    IF e.allowedOrigins = Empty THEN <<"*">>
    ELSE SelectSeq(e.allowedOrigins, LAMBDA o : o # "")

Includes(list, x) == \E i \in 1..Len(list) : list[i] = x

\* process.env.ALLOWED_ORIGINS || "*"
allowedOriginHeader(e) == IF e.allowedOrigins = Empty THEN <<"*">> ELSE e.allowedOrigins

\* a helper that reflects whatever origin the request names
corsHeadersEcho(e, origin) ==
    ("Access-Control-Allow-Origin" :> <<IF origin # "" THEN origin ELSE "*">>)
    @@ ("Access-Control-Allow-Headers" :> <<"Content-Type">>)
    @@ ("Access-Control-Allow-Methods" :> <<"POST, OPTIONS">>)

\* const corsHeaders = (origin) => ...
corsHeaders(e, origin) ==
    LET list == ALLOWED_ORIGINS(e)
        allowed == IF Includes(list, "*") THEN "*"
                   ELSE IF Includes(list, origin) THEN origin
                   ELSE IF list # << >> THEN list[1] ELSE ""
    IN  ("Access-Control-Allow-Origin" :> <<IF allowed # "" THEN allowed ELSE "*">>)
        @@ ("Access-Control-Allow-Headers" :> <<"Content-Type">>)
        @@ ("Access-Control-Allow-Methods" :> <<"POST, OPTIONS">>)

JsonType == ("Content-Type" :> <<"application/json">>)

NoHeaders == << >>

(***************************************************************************)
(* Responses.                                                              *)
(***************************************************************************)
Response(status, headers, kind, body) ==
    [status |-> status, headers |-> headers, kind |-> kind, body |-> body]

NoResponse == Response(0, NoHeaders, "none", << >>)

\* the OPTIONS branch
preflight(v, e, origin) ==
    IF IsDefaultHandler(v)
    THEN Response(204, corsHeaders(e, origin), "text", ("text" :> Empty))
    ELSE Response(200,
                  ("Access-Control-Allow-Origin" :> allowedOriginHeader(e))
                  @@ ("Access-Control-Allow-Methods" :> <<"POST, OPTIONS">>)
                  @@ ("Access-Control-Allow-Headers" :> <<"Content-Type">>),
                  "none", << >>)

\* the  method !== "POST"  branch
methodNotAllowed(v, e, origin) ==
    CASE IsDefaultHandler(v) ->
            Response(405, corsHeaders(e, origin) @@ JsonType, "json", ("error" :> <<"Use POST">>))
      [] v = "p0b" -> Response(405, JsonType, "json", ("error" :> <<"Method not allowed">>))
      [] v = "p3b" -> Response(405, NoHeaders, "json", ("error" :> <<"Method not allowed">>))
      [] OTHER -> Response(405, NoHeaders, "text", ("text" :> <<"Method Not Allowed">>))

\* the validation branch
badRequest(v, e, origin) ==
    CASE IsDefaultHandler(v) ->
            Response(400, corsHeaders(e, origin) @@ JsonType, "json",
                     ("error" :> <<"Provide at least one of: website, linkedin, about.">>))
      [] v = "p0b" -> Response(400, JsonType, "json", ("error" :> <<"Missing business_name">>))
      [] OTHER -> Response(400, NoHeaders, "json", ("error" :> <<"Missing business_name">>))

\* the catch block of the handler
serverError(v, e, origin, message) ==
    CASE IsDefaultHandler(v) ->
            Response(500, corsHeaders(e, origin) @@ JsonType, "json", ("error" :> message))
      [] v = "p0b" -> Response(500, JsonType, "json", ("error" :> message))
      [] OTHER -> Response(500, NoHeaders, "json", ("error" :> message))

\* the early 500 answers of the completion step
completionError(v, e, origin, message) ==
    CASE IsDefaultHandler(v) ->
            Response(500, corsHeaders(e, origin) @@ JsonType, "json",
                     ("error" :> message) @@ ("details" :> <<"json">>))
      [] v = "p0b" -> Response(500, JsonType, "json", ("error" :> message) @@ ("raw" :> <<"data">>))
      [] v = "p3b" -> Response(500, NoHeaders, "json", ("error" :> message) @@ ("raw" :> <<"data">>))
      [] OTHER -> Response(500, NoHeaders, "json", ("error" :> message))

SentMessage == <<"Script generated and sent via email">>

\* the success response
success(v, e, origin, scriptText, scrapedContent) ==
    CASE IsDefaultHandler(v) ->
            Response(200, corsHeaders(e, origin) @@ JsonType, "json", ("script" :> scriptText))
      [] v = "p0b" -> Response(200, JsonType, "json", ("script" :> scriptText))
      [] v = "p3b" -> Response(200, NoHeaders, "json", ("script" :> scriptText))
      [] v = "p3a" ->
            Response(200, ("Access-Control-Allow-Origin" :> allowedOriginHeader(e)) @@ JsonType,
                     "json", ("script" :> scriptText))
      [] v = "p2b" ->
            Response(200, ("Access-Control-Allow-Origin" :> allowedOriginHeader(e)) @@ JsonType,
                     "json", ("script" :> scriptText) @@ ("scraped_data" :> scrapedContent))
      [] v = "p2a" ->
            Response(200, ("Access-Control-Allow-Origin" :> allowedOriginHeader(e)) @@ JsonType,
                     "json",
                     ("message" :> SentMessage) @@ ("script" :> scriptText)
                     @@ ("parsed_sections" :> parseScript(scriptText))
                     @@ ("scraped_data" :> scrapedContent))
      [] v = "p0a" ->
            Response(200, ("Access-Control-Allow-Origin" :> <<"*">>) @@ JsonType, "json",
                     ("message" :> SentMessage) @@ ("script" :> scriptText)
                     @@ ("scraped_data" :> scrapedContent))
      [] OTHER ->
            Response(200, ("Access-Control-Allow-Origin" :> allowedOriginHeader(e)) @@ JsonType,
                     "json",
                     ("message" :> SentMessage) @@ ("script" :> scriptText)
                     @@ ("scraped_data" :> scrapedContent))

(***************************************************************************)
(* Prompt assembly.                                                        *)
(***************************************************************************)
NA == <<"N/A">>

SCRIPT_INSTRUCTIONS == <<"SCRIPT_INSTRUCTIONS">>

Field(body, f) == OrElse(body, f, Empty)

\* the template literal  prompt  /  dataBlock  /  profileBlock  of each handler
buildPrompt(v, body, sc) ==
    CASE IsDefaultHandler(v) ->
            SCRIPT_INSTRUCTIONS \o <<"\n\nDATA:\n">>
            \o <<"Business Name: ">> \o safe(Field(body, "business_name"), safeDefaultMax(v))
            \o <<"\nWebsite: ">> \o safe(Field(body, "website"), safeDefaultMax(v))
            \o <<"\nLinkedIn URL: ">> \o safe(Field(body, "linkedin"), safeDefaultMax(v))
            \o <<"\nAbout (user-provided): ">> \o safe(Field(body, "about"), 2000)
            \o <<"\nWebsite summary: ">> \o safe(sc.site.summary, 2000)
            \o <<"\nKeywords: ">> \o safe(Join(sc.site.points, <<";", " ">>), 500)
      [] v \in {"p0b", "p3b"} ->
            SCRIPT_INSTRUCTIONS \o <<"\n\nPROFILE DATA:\n">>
            \o <<"\nCompany Name: ">> \o safe(Field(body, "business_name"), safeDefaultMax(v))
            \o <<"\nBusiness Email: ">> \o safe(Field(body, "email"), safeDefaultMax(v))
            \o <<"\nWebsite: ">> \o safe(Field(body, "website"), safeDefaultMax(v))
            \o <<"\nLinkedIn: ">> \o safe(Field(body, "linkedin"), safeDefaultMax(v))
            \o <<"\n\n--- User Notes ---\n">> \o safe(Field(body, "about"), 2000)
            \o <<"\n\n--- Website Extract ---\n">> \o safe(sc.site.summary, 2000)
            \o <<"\n\n--- LinkedIn Extract ---\n">> \o safe(sc.linkedin.summary, 2000)
            \o <<"\n\n--- Keywords ---\n">>
            \o safe(Join(sc.site.points \o sc.linkedin.points, <<";", " ">>), 500)
            \o <<"\n">>
      [] v = "p3a" ->
            <<"\n">> \o SCRIPT_INSTRUCTIONS \o <<"\n\nCompany Details:\n- Business Name: ">>
            \o OrElse(body, "business_name", NA)
            \o <<"\n- Website: ">> \o OrElse(body, "website", NA)
            \o <<"\n- About: ">> \o OrElse(body, "about", NA)
            \o <<"\n\nGenerate a 60-second explainer video script.\n">>
      [] v = "p2b" ->
            <<"\n">> \o SCRIPT_INSTRUCTIONS \o <<"\n\nCompany Details:\n- Business Name: ">>
            \o OrElse(body, "business_name", NA)
            \o <<"\n- Website: ">> \o OrElse(body, "website", NA)
            \o <<"\n\nExtracted Website Content:\n">> \o sc.content
            \o <<"\n\nNow, generate ...\n">>
      [] OTHER ->
            <<"\n">> \o SCRIPT_INSTRUCTIONS \o <<"\n\nCompany Details:\n- Business Name: ">>
            \o OrElse(body, "business_name", NA)
            \o <<"\n- Website: ">> \o OrElse(body, "website", NA)
            \o <<"\n- LinkedIn: ">> \o OrElse(body, "linkedin", NA)
            \o <<"\n\nExtracted Website Content:\n">> \o sc.content
            \o <<"\n\nNow, generate ...\n">>

(***************************************************************************)
(* The completion API.  A reply is a rejected fetch, a response whose body *)
(* is not JSON, or a response with JSON data; ok is response.ok.           *)
(***************************************************************************)
ScriptText == <<"B", "u", "y", " ", "n", "o", "w">>
BlankText == <<" ">>
LabelledText ==
    <<"H", "o", "o", "k", ":", "\n", "h", "i", "\n", "C", "L", "O", "S", "E", "\n", "\n", "b", "y", "e">>

CompletionTexts == { Empty, BlankText, ScriptText, LabelledText }

\* one element of data.choices: the content of its message and of its delta,
\* for those of the two it has (Empty content: "" or no content at all)
Choices ==
    UNION { [S -> CompletionTexts] : S \in SUBSET {"message"} }
    \cup { ("delta" :> ScriptText), ("message" :> Empty) @@ ("delta" :> ScriptText) }

Data(shape, choices) == [shape |-> shape, choices |-> choices]

CompletionData ==
    { Data("null", << >>), Data("nochoices", << >>), Data("choices", << >>) }
    \cup { Data("choices", <<c>>) : c \in Choices }

CompletionReplies ==
    { [kind |-> "reject", ok |-> FALSE, data |-> Data("null", << >>)] }
    \cup { [kind |-> "nonjson", ok |-> o, data |-> Data("null", << >>)] : o \in BOOLEAN }
    \cup { [kind |-> "json", ok |-> o, data |-> d] : o \in BOOLEAN, d \in CompletionData }

\* data?.choices?.[0]?.message?.content  and  data?.choices?.[0]?.delta?.content
ChoiceContent(data, part) ==
    IF data.shape = "choices" /\ data.choices # << >> /\ part \in DOMAIN data.choices[1]
    THEN data.choices[1][part]
    ELSE Empty

\* a || b  on strings: the first operand unless it is empty
Either(a, b) == IF a # Empty THEN a ELSE b

Thrown(message) == [kind |-> "throw", message |-> message, text |-> Empty]
Answered(message) == [kind |-> "respond", message |-> message, text |-> Empty]
Script(text) == [kind |-> "script", message |-> Empty, text |-> text]

NoScriptGenerated == <<"No script generated">>

\* from  await fetch(...)  to the script text: what the handler does with the reply
readCompletion(v, reply) ==
    CASE reply.kind = "reject" -> Thrown(<<"fetch failed">>)
      [] reply.kind = "nonjson" -> Thrown(<<"Unexpected token < in JSON">>)
      [] OTHER ->
         LET data == reply.data
             message == ChoiceContent(data, "message")
             delta == ChoiceContent(data, "delta")
         IN  CASE IsDefaultHandler(v) ->
                    IF ~reply.ok THEN Answered(<<"LLM error">>)
                    ELSE Script(message)
               [] v \in {"p0b", "p3b"} ->
                    IF Trim(message) = Empty THEN Answered(<<"Empty response from model">>)
                    ELSE Script(message)
               [] v = "p3a" ->
                    IF data.shape # "choices" \/ data.choices = << >>
                    THEN Answered(<<"Empty response from OpenRouter">>)
                    ELSE IF "message" \notin DOMAIN data.choices[1]
                    THEN Thrown(<<"Cannot read properties of undefined (reading 'content')">>)
                    ELSE Script(message)
               [] v = "p2a" -> Script(Either(message, delta))
               [] v \in {"p0a", "p2b"} ->
                    IF data.shape = "null"
                    THEN Thrown(<<"Cannot read properties of null (reading 'choices')">>)
                    ELSE Script(Either(message, NoScriptGenerated))
               [] OTHER ->
                    IF data.shape = "null"
                    THEN Thrown(<<"Cannot read properties of null (reading 'choices')">>)
                    ELSE Script(Either(Either(message, delta), NoScriptGenerated))

(***************************************************************************)
(* Rendering and mail.                                                     *)
(***************************************************************************)
There == <<"there">>

\* the template literal  emailTemplate / emailHTML  of the handlers that send HTML
emailTemplate(v, body, scriptText) ==
    CASE v = "p2a" -> <<"<!DOCTYPE html> ... Hey Ab! ... </html>">>
      [] v = "p0c" ->
            <<"<div><h2>Hey ">> \o OrElse(body, "business_name", There)
            \o <<", here's your generated explainer video script!</h2><p>Website: ">>
            \o OrElse(body, "website", NA) \o <<"</p><p>LinkedIn: ">>
            \o OrElse(body, "linkedin", NA) \o <<"</p><hr /><pre>\n">>
            \o scriptText \o <<"\n</pre> ... </div>">>
      [] OTHER ->
            <<"<!DOCTYPE html> ... <h2>Hey ">> \o OrElse(body, "business_name", There)
            \o <<",</h2> ... <pre>\n">> \o scriptText \o <<"\n</pre> ... videos ... </html>">>

\* gs1 interpolates videoCardsHTML, which nothing declares: a ReferenceError
renderThrows(v) == v = "gs1"

NoMail == [to |-> Empty, subject |-> Empty, html |-> Empty, text |-> Empty]

\* the arguments of transporter.sendMail
mailMessage(v, body, scriptText) ==
    CASE IsDefaultHandler(v) ->
            [to |-> Field(body, "email"),
             subject |-> <<"Your video script for ">>
                         \o Either(Field(body, "business_name"),
                                   Either(Field(body, "website"), <<"your business">>)),
             html |-> Empty,
             text |-> scriptText]
      [] v \in {"p0a", "p2a"} ->
            [to |-> Field(body, "email"),
             subject |-> OrElse(body, "business_name", <<"Your Brand">>)
                         \o (IF v = "p0a" THEN <<" | Explainer Video Script x Believit">>
                             ELSE <<" | Explainer Video Script x Beliv8">>),
             html |-> emailTemplate(v, body, scriptText),
             text |-> Empty]
      [] OTHER ->
            [to |-> Field(body, "email"),
             subject |-> <<"Your Explainer Video Script">>,
             html |-> emailTemplate(v, body, scriptText),
             text |-> Empty]

\* a guard that forgets to look at the recipient
emailRequestedAlways(v, body, scriptText) == AwaitsSendEmail(v) \/ IsDefaultHandler(v)

\* if (email)  /  if (email && script): does the handler go on to send mail
emailRequested(v, body, scriptText) ==
    CASE AwaitsSendEmail(v) -> Truthy(body, "email")
      [] IsDefaultHandler(v) -> Truthy(body, "email") /\ scriptText # Empty
      [] OTHER -> FALSE

(***************************************************************************)
(* The request.                                                            *)
(***************************************************************************)
Methods == {"POST", "OPTIONS", "GET"}

\* the origin header is read by the default handlers only
Origins(v) == IF IsDefaultHandler(v) THEN {"", OriginA, OriginEvil} ELSE {""}

\* the fields each handler destructures from the body
FieldsRead(v) ==
    CASE IsDefaultHandler(v) -> Fields
      [] v \in {"p0b", "p3b"} -> Fields
      [] v = "p3a" -> {"business_name", "website", "about"}
      [] v = "p2b" -> {"business_name", "website"}
      [] OTHER -> {"business_name", "website", "linkedin", "email"}

\* p0b is handed req.body already parsed; the others parse the body themselves
BodyParses(v) == IF v = "p0b" THEN {TRUE} ELSE BOOLEAN

NoRequest == [method |-> "", origin |-> "", parses |-> FALSE, body |-> << >>]


\* if (!website && !about && !linkedin)  /  if (!business_name)
valid(v, body) ==
    CASE IsDefaultHandler(v) ->
            Truthy(body, "website") \/ Truthy(body, "about") \/ Truthy(body, "linkedin")
      [] v \in {"p0b", "p3b"} -> Truthy(body, "business_name")
      [] OTHER -> TRUE

\* a method check that only turns OPTIONS away
methodAllowedUnlessOptions(method) == method # "OPTIONS"

\* if (event.httpMethod !== "POST")  /  if (req.method !== 'POST')
methodAllowed(method) == method = "POST"

NoCalls == [website |-> 0, linkedin |-> 0, completion |-> 0, mail |-> 0]

NoReply == [kind |-> "none", ok |-> FALSE, data |-> Data("null", << >>)]

NoFetch == [ok |-> FALSE, page |-> << >>]

NoReplies == [website |-> "none", linkedin |-> "none", completion |-> NoReply, mail |-> "none"]

Outcome(ok) == IF ok THEN "ok" ELSE "failed"

NoScrape == [content |-> Empty, site |-> NoProfile, linkedin |-> NoProfile]

\* no other invocation
NoSuspended == << >>

Init ==
    /\ variant \in Variants
    /\ env \in Envs(variant)
    /\ pc = "idle"
    /\ request = NoRequest
    /\ scraped = NoScrape
    /\ prompt = Empty
    /\ script = Empty
    /\ response = NoResponse
    /\ calls = NoCalls
    /\ mail = NoMail
    /\ bg = "none"
    /\ raised = "none"
    /\ replies = NoReplies
    /\ scriptSections = NoSections
    /\ scriptHTML = NoRows
    /\ suspended = NoSuspended

\* a handler that builds its response and never returns it
RespondNever(r) == response' = r /\ pc' = pc

\* return { statusCode, headers, body }  /  return new Response(...)
Respond(r) == response' = r /\ pc' = "done"

\* a handler that parses the body before it enters the try block
insideTryAfterParse(v, step) == step # "parse"

\* the statements of the handler that stand inside its  try { ... } catch
insideTry(v, step) == TRUE

\* an exception no catch block handles: the invocation fails
Unhandled == Response(0, NoHeaders, "fault", << >>)

Catch(step, message) ==
    /\ raised' = step
    /\ IF insideTry(variant, step)
       THEN Respond(serverError(variant, env, request.origin, message))
       ELSE Respond(Unhandled)

Request(method, origin, parses, body) ==
    [method |-> method, origin |-> origin, parses |-> parses, body |-> body]

\* the requests that differ in something the handler reads: a body is read
\* on a POST only, and its fields only when it parses
Requests(v) ==
    { Request(m, o, TRUE, << >>) : m \in Methods \ {"POST"}, o \in Origins(v) }
    \cup { Request("POST", o, p, << >>) : o \in Origins(v), p \in BodyParses(v) }
    \cup { Request("POST", o, TRUE, b) :
             o \in Origins(v), b \in { b \in Bodies : DOMAIN b \subseteq FieldsRead(v) } }

\* the platform invokes the handler
Receive ==
    /\ pc = "idle"
    /\ request' \in Requests(variant)
    /\ pc' = "method"
    /\ UNCHANGED <<suspended, scriptSections, scriptHTML, variant, env, scraped, prompt, script, response, calls, mail, bg, raised, replies>>

\* the OPTIONS branch and the method check
HandleMethod ==
    /\ pc = "method"
    /\ IF HasOptionsBranch(variant) /\ request.method = "OPTIONS"
       THEN Respond(preflight(variant, env, request.origin))
       ELSE IF ~methodAllowed(request.method)
       THEN Respond(methodNotAllowed(variant, env, request.origin))
       ELSE pc' = "parse" /\ UNCHANGED response
    /\ UNCHANGED <<suspended, scriptSections, scriptHTML, variant, env, request, scraped, prompt, script, calls, mail, bg, raised, replies>>

\* JSON.parse(event.body || "{}") / await req.json(), the API-key check, validation
ParseAndValidate ==
    /\ pc = "parse"
    /\ IF ~request.parses
       THEN Catch("parse", <<"Unexpected token in JSON">>)
       ELSE IF IsDefaultHandler(variant) /\ ~env.apiKey
       THEN Catch("config", <<"Missing OPENROUTER_API_KEY">>)
       ELSE IF ~valid(variant, request.body)
       THEN Respond(badRequest(variant, env, request.origin)) /\ UNCHANGED raised
       ELSE pc' = "scrapeWebsite" /\ UNCHANGED <<response, raised>>
    /\ UNCHANGED <<suspended, scriptSections, scriptHTML, variant, env, request, scraped, prompt, script, calls, mail, bg, replies>>

\* an extractor that fetches whether or not a website was submitted
fetchesWebsiteAlways(v, body) == UsesScrapeWebsite(v) \/ UsesScrapeSite(v)

\* if (website) ... scrapeWebsite(website)  /  scrapeSite: if (!url) return { summary: "", ... }
fetchesWebsite(v, body) ==
    (UsesScrapeWebsite(v) \/ UsesScrapeSite(v)) /\ Truthy(body, "website")

\* a handler that calls its scrapers without await
scrapeDetached(v) == FALSE

\* every handler writes  await scrapeWebsite(...)  /  await scrapeSite(...)  /
\* await scrapeLinkedIn(...): it is suspended until the scraper settles
scrapeAwaited(v) == TRUE

\* if (website) scrapedContent = await scrapeWebsite(website)  /  await scrapeSite(website)
ScrapeWebsiteStart ==
    /\ pc = "scrapeWebsite"
    /\ IF fetchesWebsite(variant, request.body)
       THEN /\ calls' = [calls EXCEPT !.website = @ + 1]
            /\ pc' = IF scrapeAwaited(variant) THEN "awaitWebsite" ELSE "scrapeLinkedIn"
       ELSE /\ pc' = "scrapeLinkedIn"
            /\ UNCHANGED calls
    /\ UNCHANGED <<suspended, scriptSections, scriptHTML, variant, env, request, scraped, prompt, script, response, mail, bg, raised, replies>>

\* a scraper that fetches again after a failed fetch
afterScrapeRetry(reply) == IF reply.ok THEN "scrapeLinkedIn" ELSE "scrapeWebsite"

\* where the handler goes once scrapeWebsite / scrapeSite has settled
afterScrape(reply) == "scrapeLinkedIn"

\* a scraper without its try/catch: the failed fetch rejects the scraper
scraperThrowsOnFailure(reply) == ~reply.ok

\* scrapeWebsite / scrapeSite / scrapeLinkedIn fetch and parse inside
\* try { ... } catch: the scraper resolves whatever the fetch does
scraperThrows(reply) == FALSE

\* the website fetch settles; the scraper catches a failure itself
WebsiteFetched(reply) ==
    /\ pc = "awaitWebsite"
    /\ replies' = [replies EXCEPT !.website = Outcome(reply.ok)]
    /\ IF scraperThrows(reply)
       THEN /\ Catch("scrape", <<"fetch failed">>)
            /\ UNCHANGED scraped
       ELSE /\ scraped' = IF UsesScrapeWebsite(variant)
                          THEN [scraped EXCEPT !.content = scrapeWebsite(reply)]
                          ELSE [scraped EXCEPT !.site = scrapeSite(variant, reply)]
            /\ pc' = afterScrape(reply)
            /\ UNCHANGED <<response, raised>>
    /\ UNCHANGED <<suspended, scriptSections, scriptHTML, variant, env, request, prompt, script, calls, mail, bg>>

\* await scrapeLinkedIn(linkedin)
ScrapeLinkedInStart ==
    /\ pc = "scrapeLinkedIn"
    /\ IF UsesScrapeLinkedIn(variant) /\ Truthy(request.body, "linkedin")
       THEN /\ calls' = [calls EXCEPT !.linkedin = @ + 1]
            /\ pc' = IF scrapeAwaited(variant) THEN "awaitLinkedIn" ELSE "prompt"
       ELSE /\ pc' = "prompt"
            /\ UNCHANGED calls
    /\ UNCHANGED <<suspended, scriptSections, scriptHTML, variant, env, request, scraped, prompt, script, response, mail, bg, raised, replies>>

LinkedInFetched(reply) ==
    /\ pc = "awaitLinkedIn"
    /\ replies' = [replies EXCEPT !.linkedin = Outcome(reply.ok)]
    /\ IF scraperThrows(reply)
       THEN /\ Catch("scrape", <<"fetch failed">>)
            /\ UNCHANGED scraped
       ELSE /\ scraped' = [scraped EXCEPT !.linkedin = scrapeLinkedIn(reply)]
            /\ pc' = "prompt"
            /\ UNCHANGED <<response, raised>>
    /\ UNCHANGED <<suspended, scriptSections, scriptHTML, variant, env, request, prompt, script, calls, mail, bg>>

\* the prompt is assembled and the completion request is issued
CallCompletion ==
    /\ pc = "prompt"
    /\ prompt' = buildPrompt(variant, request.body, scraped)
    /\ calls' = [calls EXCEPT !.completion = @ + 1]
    /\ pc' = "awaitCompletion"
    /\ UNCHANGED <<suspended, scriptSections, scriptHTML, variant, env, request, scraped, script, response, mail, bg, raised, replies>>

\* the scraped_data of the success response
scrapedData == scraped.content

\* part_002's handler runs parseScript and renderScriptMap on the script text
parsesSections(v) == v = "p2a"

\* the completion call settles: the script is read, the email is rendered,
\* the mail is submitted (awaited or handed to waitUntil) or the response returned
CompletionReturned(reply) ==
    /\ pc = "awaitCompletion"
    /\ replies' = [replies EXCEPT !.completion = reply]
    /\ LET out == readCompletion(variant, reply)
           body == request.body
       IN  CASE out.kind = "throw" ->
                  /\ Catch("completion", out.message)
                  /\ UNCHANGED <<script, calls, mail, bg, scriptSections, scriptHTML>>
             [] out.kind = "respond" ->
                  /\ Respond(completionError(variant, env, request.origin, out.message))
                  /\ UNCHANGED <<script, calls, mail, bg, raised, scriptSections, scriptHTML>>
             [] OTHER ->
                  /\ script' = out.text
                  /\ IF parsesSections(variant)
                     THEN /\ scriptSections' = parseScript(script')
                          /\ scriptHTML' = renderScriptMap(scriptSections')
                     ELSE UNCHANGED <<scriptSections, scriptHTML>>
                  /\ IF renderThrows(variant)
                     THEN /\ Catch("render", <<"videoCardsHTML is not defined">>)
                          /\ UNCHANGED <<calls, mail, bg>>
                     ELSE IF ~emailRequested(variant, body, out.text)
                     THEN /\ Respond(success(variant, env, request.origin, out.text, scrapedData))
                          /\ UNCHANGED <<calls, mail, bg, raised>>
                     ELSE IF AwaitsSendEmail(variant)
                     THEN /\ calls' = [calls EXCEPT !.mail = @ + 1]
                          /\ mail' = mailMessage(variant, body, out.text)
                          /\ pc' = "awaitMail"
                          /\ UNCHANGED <<response, bg, raised>>
                     ELSE \* context.waitUntil(emailScript(...)): emailScript runs up
                          \* to its await, then the handler returns the response
                          /\ IF env.smtpHost
                             THEN /\ calls' = [calls EXCEPT !.mail = @ + 1]
                                  /\ mail' = mailMessage(variant, body, out.text)
                                  /\ bg' = "pending"
                             ELSE /\ bg' = "skipped"
                                  /\ UNCHANGED <<calls, mail>>
                          /\ Respond(success(variant, env, request.origin, out.text, scrapedData))
                          /\ UNCHANGED raised
    /\ UNCHANGED <<suspended, variant, env, request, scraped, prompt>>

\* a sendEmail that catches the failure of transporter.sendMail
sendEmailSwallows(ok) == FALSE

\* sendEmail has no try/catch: a rejected transporter.sendMail rejects sendEmail
sendEmailRejects(ok) == ~ok

\* await sendEmail(...) settles
MailReturned(ok) ==
    /\ pc = "awaitMail"
    /\ replies' = [replies EXCEPT !.mail = Outcome(ok)]
    /\ IF ~sendEmailRejects(ok)
       THEN /\ Respond(success(variant, env, request.origin, script, scrapedData))
            /\ UNCHANGED raised
       ELSE Catch("mail", <<"SMTP error">>)
    /\ UNCHANGED <<suspended, scriptSections, scriptHTML, variant, env, request, scraped, prompt, script, calls, mail, bg>>

\* an emailScript without its try/catch
emailScriptPropagates(ok) == ~ok

\* emailScript wraps its body in  try { ... } catch (_) { }: it never rejects
emailScriptRejects(ok) == FALSE

\* the detached emailScript settles; its catch swallows a failure
BackgroundMailSettled(ok) ==
    /\ bg = "pending"
    /\ bg' = IF emailScriptRejects(ok) THEN "rejected" ELSE IF ok THEN "sent" ELSE "failed"
    /\ UNCHANGED <<suspended, scriptSections, scriptHTML, variant, env, pc, request, scraped, prompt, script, response, calls, mail,
                   raised, replies>>

Next ==
    \/ Receive
    \/ HandleMethod
    \/ ParseAndValidate
    \/ ScrapeWebsiteStart
    \/ \E r \in FetchReplies : WebsiteFetched(r)
    \/ ScrapeLinkedInStart
    \/ \E r \in FetchReplies : LinkedInFetched(r)
    \/ CallCompletion
    \/ \E r \in CompletionReplies : CompletionReturned(r)
    \/ \E ok \in BOOLEAN : MailReturned(ok)
    \/ \E ok \in BOOLEAN : BackgroundMailSettled(ok)

Spec == Init /\ [][Next]_vars

(***************************************************************************)
(* Properties.                                                             *)
(***************************************************************************)
Done == pc = "done"

IsPost == request.method = "POST"

HasErrorField == response.kind = "json" /\ "error" \in DOMAIN response.body

\* the POST went past parsing, the configuration check and validation
Validated == IsPost /\ request.parses /\ valid(variant, request.body)

\* the text of the completion: the content of the first choice's message
CompletionText == ChoiceContent(replies.completion.data, "message")

\* the completion call succeeded with a script text that is not blank
CompletionSucceeded ==
    /\ replies.completion.kind = "json"
    /\ replies.completion.ok
    /\ Trim(CompletionText) # Empty

\* the completion API answered with a non-success HTTP status
CompletionNotOk == replies.completion.kind \in {"json", "nonjson"} /\ ~replies.completion.ok

\* the completion response has no choices, or its first choice has no content
CompletionEmpty ==
    /\ replies.completion.kind = "json"
    /\ replies.completion.ok
    /\ ChoiceContent(replies.completion.data, "message") = Empty
    /\ ChoiceContent(replies.completion.data, "delta") = Empty

CanSendMail(v) == AwaitsSendEmail(v) \/ IsDefaultHandler(v)

\* C1: a validated POST without email whose website fetch and completion call
\* succeed ends with HTTP 200 and a JSON body whose script is the completion
\* text, in every handler variant; it never ends with HTTP 500.
C1_SuccessEnds200 ==
    (/\ Done /\ Validated
     /\ ~Truthy(request.body, "email")
     /\ replies.website # "failed" /\ replies.linkedin # "failed"
     /\ CompletionSucceeded)
    => (/\ response.status = 200
        /\ response.kind = "json"
        /\ "script" \in DOMAIN response.body
        /\ response.body["script"] = CompletionText)

\* C2: when the completion API answers with a non-success status, the handler
\* responds HTTP 500 with an error field and submits no mail.
C2_CompletionStatusError ==
    CompletionNotOk
    => (/\ calls.mail = 0
        /\ pc # "awaitMail"
        /\ Done => (response.status = 500 /\ HasErrorField))

\* C3: when the completion response has no choices or an empty first content,
\* the handler answers with a non-200 response carrying an error field and
\* submits no mail.
C3_EmptyCompletionSignalled ==
    CompletionEmpty
    => (/\ calls.mail = 0
        /\ Done => (response.status # 200 /\ HasErrorField))

\* C4: in every variant that can send mail, a POST with a non-empty email whose
\* completion call succeeds leads to exactly one mail submission, whose HTML
\* body is non-empty and contains the submitted business name.
C4_OneMailWithBusinessName ==
    (/\ Done /\ Validated /\ CanSendMail(variant)
     /\ Truthy(request.body, "email")
     /\ CompletionSucceeded)
    => (/\ calls.mail = 1
        /\ mail.html # Empty
        /\ Truthy(request.body, "business_name")
              => Contains(mail.html, request.body["business_name"]))

\* C5: a POST whose body has no email (absent or empty) never leads to a
\* mail-submission call, whatever the scraping and completion steps answer.
C5_NoEmailNoMail ==
    (IsPost /\ ~Truthy(request.body, "email"))
    => (calls.mail = 0 /\ mail = NoMail /\ pc # "awaitMail" /\ bg \in {"none", "skipped"})

\* C5 witness: such a POST went through scraping and completion and got its script
C5_Witness ==
    /\ Done /\ IsPost /\ CanSendMail(variant)
    /\ "email" \in DOMAIN request.body /\ request.body["email"] = Empty
    /\ calls.website = 1 /\ calls.completion = 1
    /\ response.status = 200

\* C6: within one request each outbound call is attempted at most once: one
\* fetch per scraping pass, one completion request, one mail submission; a
\* failed call is not retried.
C6_SingleAttempt ==
    /\ calls.website <= 1
    /\ calls.linkedin <= 1
    /\ calls.completion <= 1
    /\ calls.mail <= 1
    /\ replies.website = "failed" => (calls.website = 1 /\ pc # "awaitWebsite")
    /\ replies.mail = "failed" => (calls.mail = 1 /\ Done)
    /\ replies.completion.kind = "reject" => (calls.completion = 1 /\ Done)

\* C6 witness: a request whose website fetch and mail submission both failed
C6_Witness ==
    /\ Done
    /\ replies.website = "failed" /\ replies.mail = "failed"
    /\ calls.website = 1 /\ calls.completion = 1 /\ calls.mail = 1

\* C7: a request whose method is neither POST nor OPTIONS is answered with
\* HTTP 405 and runs no pipeline step: no fetch, no completion, no mail.
C7_OtherMethod405 ==
    (request # NoRequest /\ request.method \notin {"POST", "OPTIONS"})
    => (/\ pc \in {"method", "done"}
        /\ calls = NoCalls
        /\ Done => response.status = 405)

\* C7 witness: a GET has been answered
C7_Witness == Done /\ request.method = "GET" /\ response.status = 405

NoBody == response.kind = "none" \/ (response.kind = "text" /\ response.body["text"] = Empty)

\* C8: an OPTIONS request ends in the preflight response: the three CORS
\* headers, no body, no pipeline step, and never HTTP 405.
C8_OptionsPreflight ==
    (request.method = "OPTIONS")
    => (/\ pc \in {"method", "done"}
        /\ calls = NoCalls
        /\ Done => (/\ response.status # 405
                    /\ "Access-Control-Allow-Origin" \in DOMAIN response.headers
                    /\ "Access-Control-Allow-Methods" \in DOMAIN response.headers
                    /\ response.headers["Access-Control-Allow-Methods"] = <<"POST, OPTIONS">>
                    /\ "Access-Control-Allow-Headers" \in DOMAIN response.headers
                    /\ response.headers["Access-Control-Allow-Headers"] = <<"Content-Type">>
                    /\ NoBody))

\* C9: a POST whose body lacks the field(s) the variant requires ends in HTTP
\* 400 with an error message, without any fetch, completion call or mail.
C9_MissingField400 ==
    (IsPost /\ request.parses /\ ~valid(variant, request.body))
    => (/\ calls = NoCalls
        /\ Done => (response.status = 400 /\ HasErrorField))

\* C10: an exception raised in a step of a POST (parsing the body, the
\* completion fetch, reading the completion, rendering, an awaited mail
\* submission) ends the request with HTTP 500 and a JSON error field; the
\* handler never ends with an unhandled fault.
C10_ExceptionsBecome500 ==
    /\ response.kind # "fault"
    /\ raised # "none"
          => (Done /\ response.status = 500 /\ HasErrorField
              /\ response.body["error"] # Empty)

\* C10 witness: the awaited mail submission failed and the request was answered
C10_Witness == Done /\ raised = "mail" /\ replies.mail = "failed" /\ response.status = 500

\* C11: every response a handler produces with status 200, 400, 405 or 500
\* carries the Access-Control-Allow-Origin header.
C11_AllowOriginOnEveryResponse ==
    (Done /\ response.status \in {200, 400, 405, 500})
    => "Access-Control-Allow-Origin" \in DOMAIN response.headers

\* C12: in the handlers that await sendEmail, a failed mail submission ends the
\* request in HTTP 500 with an error field; the HTTP 200 response carrying the
\* script is not produced for that request.
C12_MailFailureIs500 ==
    (AwaitsSendEmail(variant) /\ replies.mail = "failed")
    => (/\ Done
        /\ response.status = 500
        /\ HasErrorField
        /\ "script" \notin DOMAIN response.body)

\* C12 witness: the script was generated, its mail was submitted once and failed
C12_Witness ==
    /\ Done /\ AwaitsSendEmail(variant)
    /\ CompletionSucceeded /\ script # Empty
    /\ Truthy(request.body, "email")
    /\ calls.mail = 1 /\ replies.mail = "failed"
    /\ response.status = 500

\* C13: in the handlers that hand emailScript to context.waitUntil, the HTTP 200
\* response with the script exists as soon as the mail submission is pending,
\* it stays the same whatever the submission does afterwards (succeed, fail,
\* stay pending), and emailScript never rejects.
C13_DetachedMail ==
    /\ [](  (IsDefaultHandler(variant) /\ bg \in {"pending", "sent", "failed", "rejected"})
          => (/\ Done
              /\ response.status = 200
              /\ response.kind = "json"
              /\ response.body = ("script" :> script)
              /\ raised = "none"
              /\ bg # "rejected"))
    /\ [][ (IsDefaultHandler(variant) /\ bg = "pending") => response' = response ]_vars

\* C13 witness: the detached mail submission failed after the response was produced
C13_Witness ==
    /\ IsDefaultHandler(variant) /\ bg = "failed"
    /\ calls.mail = 1 /\ mail.to # Empty
    /\ response.status = 200

\* C14: for a POST without a website value (absent or empty) the text extractor
\* yields an empty result and no website fetch is attempted in that request.
C14_NoWebsiteNoFetch ==
    (IsPost /\ ~Truthy(request.body, "website"))
    => (/\ calls.website = 0
        /\ pc # "awaitWebsite"
        /\ replies.website = "none"
        /\ scraped.content = Empty
        /\ scraped.site = NoProfile)

\* C14 witness: a POST with an empty website went through a scraping handler
C14_Witness ==
    /\ Done /\ IsPost
    /\ UsesScrapeWebsite(variant) \/ UsesScrapeSite(variant)
    /\ "website" \in DOMAIN request.body /\ request.body["website"] = Empty
    /\ calls.completion = 1 /\ calls.website = 0
    /\ response.status = 200

\* C15: a failed website (or LinkedIn) fetch never reaches the handler as a
\* thrown error: the extractor returns, the handler goes on to the prompt and
\* the completion call, and no response is caused by the scraping failure.
C15_ScrapeFailureContained ==
    (replies.website = "failed" \/ replies.linkedin = "failed")
    => (/\ raised # "scrape"
        /\ response.kind # "fault"
        /\ Done => (calls.completion = 1 /\ prompt # Empty)
        /\ (Done /\ response.status = 500)
              => (raised \in {"completion", "render", "mail"} \/ ~CompletionSucceeded))

\* C15 witness: the website fetch failed and the request still got its script
C15_Witness ==
    /\ Done /\ IsPost
    /\ replies.website = "failed" /\ calls.website = 1
    /\ calls.completion = 1 /\ CompletionSucceeded
    /\ response.status = 200 /\ response.body["script"] = CompletionText

\* C16: when the website fetch fails the extracted content is empty: the text
\* put in the prompt as website content is empty and the scraped_data field
\* of the response is empty.
C16_FailedScrapeIsEmpty ==
    (replies.website = "failed")
    => (/\ scraped.content = Empty
        /\ scraped.site = NoProfile
        /\ ~Contains(prompt, ScrapeErrorText)
        /\ (Done /\ response.kind = "json" /\ "scraped_data" \in DOMAIN response.body)
              => response.body["scraped_data"] = Empty)

\* what the text extractor handed back to the handler: scrapeWebsite resolves
\* to a string, scrapeSite to an object { summary, points }
ExtractorResult(v, sc) ==
    IF UsesScrapeWebsite(v)
    THEN [kind |-> "string", text |-> sc.content]
    ELSE [kind |-> "object", text |-> sc.site.summary]

\* the fragments of an extractor result: its pieces between blank lines
RECURSIVE SplitFragments(_)

SplitFragments(s) ==
    IF s = Empty THEN << >>
    ELSE LET seps == { i \in 1..(Len(s) - 1) : s[i] = "\n" /\ s[i + 1] = "\n" }
         IN  IF seps = {} THEN <<s>>
             ELSE <<SubSeq(s, 1, SetMin(seps) - 1)>>
                  \o SplitFragments(SubSeq(s, SetMin(seps) + 2, Len(s)))

\* the trimmed text (or content attribute) of each element of a page, in document order
PageTexts(page) ==
    [i \in 1..Len(page) |->
        Trim(IF page[i].text # Empty THEN page[i].text ELSE page[i].content)]

\* frags occur in texts in the same order
RECURSIVE InOrder(_, _)

InOrder(frags, texts) ==
    IF frags = << >> THEN TRUE
    ELSE IF texts = << >> THEN FALSE
    ELSE IF frags[1] = texts[1] THEN InOrder(Tail(frags), Tail(texts))
    ELSE InOrder(frags, Tail(texts))

ExtractorBounded(reply, result) ==
    /\ result.kind = "string"
    /\ reply.ok =>
          LET frags == SplitFragments(result.text)
          IN  /\ Len(frags) <= 30
              /\ \A i \in 1..Len(frags) : Len(Trim(frags[i])) >= 30
              /\ InOrder(frags, PageTexts(reply.page))

(***************************************************************************)
(* The text extractor on its own: a handler that has just issued its       *)
(* website fetch, answered by any of the pages, the long page included.    *)
(***************************************************************************)
ExtractorReplies == FetchReplies \cup { [ok |-> TRUE, page |-> LongPage] }

ExtractorInit ==
    /\ variant \in { v \in Variants : UsesScrapeWebsite(v) \/ UsesScrapeSite(v) }
    /\ env \in Envs(variant)
    /\ request \in { r \in Requests(variant) :
                       /\ r.method = "POST" /\ r.parses
                       /\ valid(variant, r.body)
                       /\ fetchesWebsite(variant, r.body) }
    /\ IsDefaultHandler(variant) => env.apiKey
    /\ pc = "awaitWebsite"
    /\ calls = [NoCalls EXCEPT !.website = 1]
    /\ scraped = NoScrape
    /\ prompt = Empty
    /\ script = Empty
    /\ response = NoResponse
    /\ mail = NoMail
    /\ bg = "none"
    /\ raised = "none"
    /\ replies = NoReplies
    /\ scriptSections = NoSections
    /\ scriptHTML = NoRows
    /\ suspended = NoSuspended

ExtractorNext == \E r \in ExtractorReplies : WebsiteFetched(r)

ExtractorSpec == ExtractorInit /\ [][ExtractorNext]_vars

\* C17: for every fetched page the text extractor hands the handler a string
\* made of at most 30 fragments of the page in document order, each at least
\* 30 characters long after trimming; it is a string also when the fetch fails.
C17_ExtractorBounded ==
    [][ \A r \in ExtractorReplies :
          WebsiteFetched(r) => ExtractorBounded(r, ExtractorResult(variant, scraped')) ]_vars

(***************************************************************************)
(* parseScript and renderScriptMap on their own: the texts a completion    *)
(* can be made of, and the section objects a caller can pass.              *)
(***************************************************************************)
\* the longest text, in pieces
MaxPieces == 5

Pieces ==
    { <<"H", "O", "O", "K">>, <<"c", "l", "o", "s", "e">>, <<"\n">>, <<" ">>, <<"a">>, <<":">> }

RECURSIVE TextsOf(_)

TextsOf(n) ==
    IF n = 0 THEN { Empty }
    ELSE LET shorter == TextsOf(n - 1)
         IN  shorter \cup { t \o q : t \in shorter, q \in Pieces }

\* heading lines and bodies of a completion that follows the instructions
Headings ==
    { <<"H", "O", "O", "K">>, <<"c", "l", "o", "s", "e">>, <<"T", "r", "u", "s", "t", ":">> }

SectionBodies == { <<"a">>, <<"a", "\n", "b">>, <<"a", " ", "H", "O", "O", "K">> }

\* texts of two and of three sections: heading, newline, body, newline, ...
SectionedTexts ==
    { h1 \o <<"\n">> \o b1 \o <<"\n">> \o h2 \o <<"\n">> \o b2 :
         h1 \in Headings, h2 \in Headings, b1 \in SectionBodies, b2 \in SectionBodies }
    \cup { h1 \o <<"\n", "a", "\n">> \o h2 \o <<"\n", "b", "\n">> \o h3 \o <<"\n", "c">> :
              h1 \in Headings, h2 \in Headings, h3 \in Headings }

RawTexts == TextsOf(MaxPieces) \cup SectionedTexts

\* section objects: any of the five keys may be missing, any value may be empty
SectionValues ==
    UNION { [S -> {Empty, <<" ">>, <<"a">>}] : S \in SUBSET (1..5) }

ParserInit ==
    /\ variant = "p2a"
    /\ env = [apiKey |-> TRUE, smtpHost |-> TRUE, allowedOrigins |-> Empty]
    /\ request = NoRequest
    /\ scraped = NoScrape
    /\ prompt = Empty
    /\ response = NoResponse
    /\ calls = NoCalls
    /\ mail = NoMail
    /\ bg = "none"
    /\ raised = "none"
    /\ replies = NoReplies
    /\ scriptHTML = NoRows
    /\ suspended = NoSuspended
    /\ \/ pc = "scriptRaw" /\ script \in RawTexts /\ scriptSections = NoSections
       \/ pc = "sections" /\ script = Empty /\ scriptSections \in SectionValues

\* const scriptSections = parseScript(scriptRaw)
ParseScriptStep ==
    /\ pc = "scriptRaw"
    /\ scriptSections' = parseScript(script)
    /\ pc' = "parsed"
    /\ UNCHANGED <<suspended, variant, env, request, scraped, prompt, script, response, calls, mail, bg,
                   raised, replies, scriptHTML>>

\* const scriptHTML = renderScriptMap(scriptSections)
RenderScriptMapStep ==
    /\ pc \in {"parsed", "sections"}
    /\ scriptHTML' = renderScriptMap(scriptSections)
    /\ pc' = "rendered"
    /\ UNCHANGED <<suspended, variant, env, request, scraped, prompt, script, response, calls, mail, bg,
                   raised, replies, scriptSections>>

ParserNext == ParseScriptStep \/ RenderScriptMapStep

ParserSpec == ParserInit /\ [][ParserNext]_vars

\* the positions of raw at which one of the five labels stands, in any letter case
LabelStarts(raw) == { i \in 1..Len(raw) : LabelAt(raw, i) # 0 }

\* C18: a text that contains none of the five labels (in any letter case) is
\* put whole, trimmed, under SOLUTION and the four other sections are empty.
C18_NoLabelFallsBack ==
    (pc = "parsed" /\ LabelStarts(script) = {})
    => (/\ scriptSections[3] = Trim(script)
        /\ \A k \in {1, 2, 4, 5} : scriptSections[k] = Empty)

\* C18 witness: a text of several lines without a label was parsed
C18_Witness ==
    /\ pc = "parsed" /\ LabelStarts(script) = {}
    /\ Contains(Trim(script), <<"\n">>)
    /\ Trim(script) # script
    /\ scriptSections[3] = Trim(script)

\* the labels that head a line of raw: at its start or right after a newline
HeadingStarts(raw) == { i \in LabelStarts(raw) : i = 1 \/ raw[i - 1] = "\n" }

\* the text that follows the label at position i, up to the next heading or the end
BodyAfter(raw, i) ==
    LET after == i + Len(Label(LabelAt(raw, i)))
        nexts == { j \in HeadingStarts(raw) : j >= after }
        stop == IF nexts = {} THEN Len(raw) + 1 ELSE SetMin(nexts)
    IN  SubSeq(raw, after, stop - 1)

\* C19: for every label that heads a line and is followed by text before the
\* next label, parseScript returns a non-empty section under that label, and
\* the section is the text that follows such an occurrence of the label up to
\* the next label or the end of input, trimmed.
C19_LabelledBodiesKept ==
    (pc = "parsed")
    => \A i \in HeadingStarts(script) :
          Trim(BodyAfter(script, i)) # Empty
          => LET n == LabelAt(script, i)
             IN  /\ scriptSections[n] # Empty
                 /\ \E j \in HeadingStarts(script) :
                       /\ LabelAt(script, j) = n
                       /\ scriptSections[n] = Trim(BodyAfter(script, j))

\* C20: for every sections object, also one whose sections are all empty or
\* missing, renderScriptMap emits exactly five rows in the order HOOK,
\* PROBLEM, SOLUTION, TRUST, CLOSE; the copy of a row is never empty: it is
\* the section, or the dash when the section is missing or empty.
C20_FiveRowsNeverEmpty ==
    (pc = "rendered")
    => (/\ Len(scriptHTML) = 5
        /\ \A k \in 1..5 :
              /\ scriptHTML[k].title = SectionNames[k]
              /\ scriptHTML[k].copy # Empty
              /\ scriptHTML[k].copy =
                    IF k \in DOMAIN scriptSections /\ scriptSections[k] # Empty
                    THEN scriptSections[k] ELSE Dash)

\* C20 witness: an object with a missing section, an empty one and a filled one was rendered
C20_Witness ==
    /\ pc = "rendered"
    /\ DOMAIN scriptSections = {2, 3}
    /\ scriptSections[2] = Empty /\ scriptSections[3] # Empty
    /\ scriptHTML[1].copy = Dash /\ scriptHTML[2].copy = Dash

(***************************************************************************)
(* The email of the section-parsing handler.                               *)
(***************************************************************************)
\* C21: whenever the section-parsing handler has submitted its email, the
\* HTML of that email contains the body of every non-empty section of
\* scriptSections exactly once.
C21_SectionsInEmailOnce ==
    (parsesSections(variant) /\ calls.mail > 0)
        => \A k \in 1..5 :
             scriptSections[k] # Empty
                => LET body == scriptSections[k]
                       at == { i \in 0..(Len(mail.html) - Len(body)) :
                                 SubSeq(mail.html, i + 1, i + Len(body)) = body }
                   IN  Cardinality(at) = 1

\* C22: in every handler variant, a POST of {business_name: "Acme", website: ""}
\* whose completion call, whenever it is made, returns a text without any
\* recognised label ends with a JSON response whose script is that text and
\* whose scraped_data is "".
C22_AcmeScenario ==
    (/\ Done /\ IsPost /\ request.parses
     /\ request.body = ("business_name" :> <<"A", "c", "m", "e">>) @@ ("website" :> Empty)
     /\ replies.completion.kind # "none"
           => (CompletionSucceeded /\ LabelStarts(CompletionText) = {}))
    => (/\ response.kind = "json"
        /\ "script" \in DOMAIN response.body
        /\ response.body["script"] = CompletionText
        /\ "scraped_data" \in DOMAIN response.body
        /\ response.body["scraped_data"] = Empty)

(***************************************************************************)
(* The prompt payload.                                                     *)
(***************************************************************************)
\* the submission fields each handler interpolates into its prompt
PromptFields(v) ==
    CASE IsDefaultHandler(v) -> {"business_name", "website", "linkedin", "about"}
      [] v \in {"p0b", "p3b"} -> {"business_name", "email", "website", "linkedin", "about"}
      [] v = "p3a" -> {"business_name", "website", "about"}
      [] v = "p2b" -> {"business_name", "website"}
      [] OTHER -> {"business_name", "website", "linkedin"}

\* C23: once the prompt is assembled, it holds one "N/A" placeholder for each
\* submission field of the prompt that is missing or empty, in every variant.
C23_MissingFieldsAreNA ==
    calls.completion > 0
        => Cardinality({ i \in 1..Len(prompt) : prompt[i] = NA[1] })
              = Cardinality({ f \in PromptFields(variant) : ~Truthy(request.body, f) })

\* a value placed in the prompt, with the maximum length of its field
Placed(value, max) == [value |-> value, max |-> max]

\* the values each handler interpolates into its prompt: the submitted fields,
\* the website and LinkedIn extracts and the keyword list
PromptPayload(v, body, sc) ==
    CASE IsDefaultHandler(v) ->
            { Placed(safe(Field(body, f), safeDefaultMax(v)), safeDefaultMax(v)) :
                 f \in {"business_name", "website", "linkedin"} }
            \cup { Placed(safe(Field(body, "about"), 2000), 2000),
                   Placed(safe(sc.site.summary, 2000), 2000),
                   Placed(safe(Join(sc.site.points, <<";", " ">>), 500), 500) }
      [] v \in {"p0b", "p3b"} ->
            { Placed(safe(Field(body, f), safeDefaultMax(v)), safeDefaultMax(v)) :
                 f \in {"business_name", "email", "website", "linkedin"} }
            \cup { Placed(safe(Field(body, "about"), 2000), 2000),
                   Placed(safe(sc.site.summary, 2000), 2000),
                   Placed(safe(sc.linkedin.summary, 2000), 2000),
                   Placed(safe(Join(sc.site.points \o sc.linkedin.points, <<";", " ">>), 500),
                          500) }
      [] v = "p3a" ->
            { Placed(OrElse(body, f, NA), safeDefaultMax(v)) :
                 f \in {"business_name", "website", "about"} }
      [] v = "p2b" ->
            { Placed(OrElse(body, f, NA), safeDefaultMax(v)) : f \in {"business_name", "website"} }
            \cup { Placed(sc.content, safeDefaultMax(v)) }
      [] OTHER ->
            { Placed(OrElse(body, f, NA), safeDefaultMax(v)) :
                 f \in {"business_name", "website", "linkedin"} }
            \cup { Placed(sc.content, safeDefaultMax(v)) }

\* C24: every value placed in the assembled prompt is no longer than the
\* maximum of its field and holds no two whitespace characters in a row.
C24_PromptFieldsNormalized ==
    calls.completion > 0
        => \A p \in PromptPayload(variant, request.body, scraped) :
              /\ Contains(prompt, p.value)
              /\ Len(p.value) <= p.max
              /\ \A i \in 1..(Len(p.value) - 1) :
                    ~(IsWhitespace(p.value[i]) /\ IsWhitespace(p.value[i + 1]))

(***************************************************************************)
(* The order of the steps of one request.                                  *)
(***************************************************************************)
\* the outbound calls that have been issued and have not settled yet
InFlight ==
    { c \in {"website", "linkedin"} : calls[c] > 0 /\ replies[c] = "none" }
    \cup { c \in {"completion"} : calls[c] > 0 /\ replies[c].kind = "none" }
    \cup { c \in {"mail"} : calls[c] > 0 /\ replies[c] = "none"
                            /\ bg \notin {"sent", "failed", "rejected"} }

\* C25: the steps of a request run one after another: the completion call is
\* issued only when every scrape has settled, sections are parsed and mail is
\* submitted only when the completion call has settled, at most one outbound
\* call is in flight until the response is produced, and only a detached mail
\* can still be in flight afterwards.
C25_StepsInOrder ==
    /\ calls.completion > 0 => InFlight \cap {"website", "linkedin"} = {}
    /\ (calls.mail > 0 \/ scriptSections # NoSections \/ scriptHTML # NoRows)
          => (calls.completion > 0 /\ "completion" \notin InFlight)
    /\ ~Done => Cardinality(InFlight) <= 1
    /\ Done => InFlight \subseteq {"mail"}

\* a request that scraped its website, called the completion API and submitted
\* its mail, with the mail still in flight
C25_Witness ==
    /\ calls.website = 1 /\ calls.completion = 1 /\ calls.mail = 1
    /\ InFlight = {"mail"}

(***************************************************************************)
(* Two invocations on one function instance.  The platform runs a handler  *)
(* until it suspends at an await and may then run the other invocation;    *)
(* the module-level constants (variant, env) are common to both, and the   *)
(* variables below hold the locals of the invocation that is running.      *)
(* Each request is first served alone on a fresh instance, with the        *)
(* replies its outbound calls will get, then the two are served together.  *)
(***************************************************************************)
\* the locals of the running invocation
Invocation ==
    [pc |-> pc, request |-> request, scraped |-> scraped, prompt |-> prompt,
     script |-> script, response |-> response, calls |-> calls, mail |-> mail,
     bg |-> bg, raised |-> raised, replies |-> replies,
     scriptSections |-> scriptSections, scriptHTML |-> scriptHTML]

\* the locals of an invocation that has just received req
Fresh(req) ==
    [pc |-> "method", request |-> req, scraped |-> NoScrape, prompt |-> Empty,
     script |-> Empty, response |-> NoResponse, calls |-> NoCalls, mail |-> NoMail,
     bg |-> "none", raised |-> "none", replies |-> NoReplies,
     scriptSections |-> NoSections, scriptHTML |-> NoRows]

\* a module where  let scrapedContent = ""  stands outside the handler
scrapedContentHoisted(name) == name = "scraped"

\* what the handlers keep at module level and assign during a request: nothing;
\* every  let  and  const  they assign is declared inside the handler
sharedAcrossInvocations(name) == FALSE

\* the running invocation is suspended and inv runs on: each local takes the
\* value inv holds, a module-level binding keeps the value last assigned
Resume(inv) ==
    /\ pc' = inv.pc
    /\ request' = inv.request
    /\ scraped' = IF sharedAcrossInvocations("scraped") THEN scraped ELSE inv.scraped
    /\ prompt' = IF sharedAcrossInvocations("prompt") THEN prompt ELSE inv.prompt
    /\ script' = IF sharedAcrossInvocations("script") THEN script ELSE inv.script
    /\ response' = inv.response
    /\ calls' = inv.calls
    /\ mail' = IF sharedAcrossInvocations("mail") THEN mail ELSE inv.mail
    /\ bg' = inv.bg
    /\ raised' = inv.raised
    /\ replies' = inv.replies
    /\ scriptSections' =
          IF sharedAcrossInvocations("scriptSections") THEN scriptSections
          ELSE inv.scriptSections
    /\ scriptHTML' = IF sharedAcrossInvocations("scriptHTML") THEN scriptHTML ELSE inv.scriptHTML

\* what a request ends with: its response and its mail submission
Result(inv) ==
    [response |-> inv.response, mail |-> inv.mail, submitted |-> inv.calls.mail,
     background |-> inv.bg]

NoResult == [response |-> NoResponse, mail |-> NoMail, submitted |-> 0, background |-> "none"]

\* the invocation has returned and its detached mail, if any, has settled
Settled(inv) == inv.pc = "done" /\ inv.bg # "pending"

\* the handler is at an await, has not started or has returned
Suspendable(inv) ==
    inv.pc \in {"method", "awaitWebsite", "awaitLinkedIn", "awaitCompletion", "awaitMail", "done"}

\* two submissions: one with every field, one with a name and notes only
ConcurrentBodies(v) ==
    { [f \in FieldsRead(v) |-> IF f = "website" THEN <<"w", ".", "e", "x">>
                               ELSE IF f = "email" THEN <<"a", "@", "b">>
                               ELSE CHOOSE x \in FieldValues(f) : TRUE],
      [f \in FieldsRead(v) \cap {"business_name", "about"} |-> CHOOSE x \in FieldValues(f) : TRUE] }

\* the replies one request gets from its outbound calls
Oracles ==
    [website : { r \in FetchReplies : r.page # << >> \/ ~r.ok },
     linkedin : { r \in FetchReplies : r.page # << >> },
     completion : { r \in CompletionReplies :
                      \/ r.kind = "reject"
                      \/ /\ r.kind = "json" /\ r.ok /\ r.data.choices # << >>
                         /\ r.data.choices[1] = ("message" :> LabelledText) },
     mail : BOOLEAN]

ConcurrentInit ==
    /\ variant \in Variants
    /\ env = [apiKey |-> TRUE, smtpHost |-> TRUE, allowedOrigins |-> Empty]
    /\ \E b1, b2 \in ConcurrentBodies(variant), o1, o2 \in Oracles :
          /\ Truthy(b1, "website")
          /\ suspended = [phase |-> "alone", who |-> 1, overlapped |-> FALSE,
                          inputs |-> <<Request("POST", "", TRUE, b1), Request("POST", "", TRUE, b2)>>,
                          oracle |-> <<o1, o2>>,
                          alone |-> <<NoResult, NoResult>>,
                          other |-> Fresh(Request("POST", "", TRUE, b2))]
          /\ pc = "method"
          /\ request = Request("POST", "", TRUE, b1)
    /\ scraped = NoScrape
    /\ prompt = Empty
    /\ script = Empty
    /\ response = NoResponse
    /\ calls = NoCalls
    /\ mail = NoMail
    /\ bg = "none"
    /\ raised = "none"
    /\ replies = NoReplies
    /\ scriptSections = NoSections
    /\ scriptHTML = NoRows

\* the replies of the running invocation
Oracle == suspended.oracle[suspended.who]

\* a request served alone has ended: its result is recorded, and a fresh
\* instance serves the second request alone, then the two requests together
AloneDone ==
    /\ suspended.phase = "alone"
    /\ Settled(Invocation)
    /\ suspended' = [suspended EXCEPT
                        !.alone[suspended.who] = Result(Invocation),
                        !.who = IF suspended.who = 1 THEN 2 ELSE 1,
                        !.phase = IF suspended.who = 1 THEN "alone" ELSE "both"]
    /\ LET next == Fresh(suspended.inputs[suspended'.who])
       IN  /\ pc' = next.pc /\ request' = next.request /\ scraped' = next.scraped
           /\ prompt' = next.prompt /\ script' = next.script /\ response' = next.response
           /\ calls' = next.calls /\ mail' = next.mail /\ bg' = next.bg
           /\ raised' = next.raised /\ replies' = next.replies
           /\ scriptSections' = next.scriptSections /\ scriptHTML' = next.scriptHTML
    /\ UNCHANGED <<variant, env>>

\* the running invocation is suspended (or has returned) and the platform
\* runs the other one
Switch ==
    /\ suspended.phase = "both"
    /\ Suspendable(Invocation)
    /\ ~Settled(suspended.other)
    /\ suspended' = [suspended EXCEPT
                        !.other = Invocation,
                        !.who = IF suspended.who = 1 THEN 2 ELSE 1,
                        !.overlapped = @ \/ (InFlight # {} /\ suspended.other.calls # NoCalls)]
    /\ Resume(suspended.other)
    /\ UNCHANGED <<variant, env>>

ConcurrentNext ==
    \/ HandleMethod
    \/ ParseAndValidate
    \/ ScrapeWebsiteStart
    \/ WebsiteFetched(Oracle.website)
    \/ ScrapeLinkedInStart
    \/ LinkedInFetched(Oracle.linkedin)
    \/ CallCompletion
    \/ CompletionReturned(Oracle.completion)
    \/ MailReturned(Oracle.mail)
    \/ BackgroundMailSettled(Oracle.mail)
    \/ AloneDone
    \/ Switch

ConcurrentSpec == ConcurrentInit /\ [][ConcurrentNext]_vars

\* C26: when two requests are served together, in any interleaving of their
\* suspended calls, each ends with the response and the mail submission it
\* ends with when it is served alone with the same replies.
C26_RequestsIsolated ==
    suspended # NoSuspended /\ suspended.phase = "both"
        => /\ Settled(Invocation)
                => Result(Invocation) = suspended.alone[suspended.who]
           /\ Settled(suspended.other)
                => Result(suspended.other) = suspended.alone[IF suspended.who = 1 THEN 2 ELSE 1]

\* both requests have ended with HTTP 200 after one was suspended on an
\* outbound call while the other had calls of its own, and their results differ
C26_Witness ==
    /\ suspended # NoSuspended /\ suspended.phase = "both" /\ suspended.overlapped
    /\ Settled(Invocation) /\ Settled(suspended.other)
    /\ response.status = 200 /\ suspended.other.response.status = 200
    /\ Result(Invocation) # Result(suspended.other)

(***************************************************************************)
(* Reference videos: youtubeId and renderVideoRows of part_002.  A video   *)
(* is a function from the keys it has, among title and url, to texts.      *)
(***************************************************************************)
\* a watch URL, a watch URL whose v is not the first parameter, a youtu.be
\* URL, a shorts URL, an embed URL, a URL of another site, and ""
VideoUrls ==
    { <<"h", "t", "t", "p", "s", ":", "/", "/", "w", "w", "w", ".", "y", "o", "u", "t",
        "u", "b", "e", ".", "c", "o", "m", "/", "w", "a", "t", "c", "h", "?", "v", "=",
        "C", "0", "L", "6", "_", "a", "b">>,
      <<"h", "t", "t", "p", "s", ":", "/", "/", "y", "o", "u", "t", "u", "b", "e", ".",
        "c", "o", "m", "/", "w", "a", "t", "c", "h", "?", "t", "=", "9", "&", "v", "=",
        "f", "-", "3", "&", "x", "=", "1">>,
      <<"h", "t", "t", "p", "s", ":", "/", "/", "y", "o", "u", "t", "u", ".", "b", "e",
        "/", "X", "e", "2", "?", "t", "=", "1">>,
      <<"h", "t", "t", "p", "s", ":", "/", "/", "w", "w", "w", ".", "Y", "o", "u", "T",
        "u", "b", "e", ".", "c", "o", "m", "/", "s", "h", "o", "r", "t", "s", "/", "G",
        "s", "_", "1">>,
      <<"h", "t", "t", "p", "s", ":", "/", "/", "w", "w", "w", ".", "y", "o", "u", "t",
        "u", "b", "e", ".", "c", "o", "m", "/", "e", "m", "b", "e", "d", "/", "l", "A",
        "1">>,
      <<"h", "t", "t", "p", "s", ":", "/", "/", "v", "i", "m", "e", "o", ".", "c", "o",
        "m", "/", "7">>,
      Empty }

\* [A-Za-z0-9_-]
IdChars ==
    { "a", "b", "c", "d", "e", "f", "g", "h", "i", "j", "k", "l", "m", "n", "o", "p", "q", "r",
      "s", "t", "u", "v", "w", "x", "y", "z", "A", "B", "C", "D", "E", "F", "G", "H", "I", "J",
      "K", "L", "M", "N", "O", "P", "Q", "R", "S", "T", "U", "V", "W", "X", "Y", "Z", "0", "1",
      "2", "3", "4", "5", "6", "7", "8", "9", "_", "-" }

\* the i flag: the letters of the literals of the two patterns, in either case
Fold(c) ==
    CASE c = "Y" -> "y" [] c = "O" -> "o" [] c = "U" -> "u" [] c = "T" -> "t"
      [] c = "B" -> "b" [] c = "E" -> "e" [] c = "C" -> "c" [] c = "M" -> "m"
      [] c = "S" -> "s" [] c = "H" -> "h" [] c = "R" -> "r" [] c = "V" -> "v"
      [] OTHER -> c

\* the literal lit stands in url at position i
LitAt(url, i, lit) ==
    /\ i >= 1 /\ i + Len(lit) - 1 <= Len(url)
    /\ \A k \in 1..Len(lit) : Fold(url[i + k - 1]) = lit[k]

\* ([A-Za-z0-9_-]+) at position i: the longest run of identifier characters
IdRun(url, i) ==
    SubSeq(url, i, FirstOf({ k \in i..Len(url) : url[k] \notin IdChars }, Len(url) + 1) - 1)

\* function youtubeId(url = ""): the first group of the first pattern that
\* matches, "" when neither does
youtubeId(url) ==
    LET com == <<"y", "o", "u", "t", "u", "b", "e", ".", "c", "o", "m", "/">>
        be == <<"y", "o", "u", "t", "u", ".", "b", "e", "/">>
        shorts == <<"y", "o", "u", "t", "u", "b", "e", ".", "c", "o", "m", "/", "s", "h", "o", "r", "t", "s", "/">>
        \* youtube\.com\/.*[?&]v=  from position i: .* is greedy, so the last v=
        \* that an identifier character follows
        params(i) == { j \in (i + Len(com))..Len(url) :
                         /\ url[j] \in {"?", "&"}
                         /\ LitAt(url, j + 1, <<"v", "=">>)
                         /\ j + 3 <= Len(url) /\ url[j + 3] \in IdChars }
        watch(i) == LitAt(url, i, com) /\ params(i) # {}
        short(i) == LitAt(url, i, be) /\ i + Len(be) <= Len(url) /\ url[i + Len(be)] \in IdChars
        first == FirstOf({ i \in 1..Len(url) : watch(i) \/ short(i) }, 0)
        second == FirstOf({ i \in 1..Len(url) :
                              /\ LitAt(url, i, shorts)
                              /\ i + Len(shorts) <= Len(url)
                              /\ url[i + Len(shorts)] \in IdChars }, 0)
    IN  IF first # 0
        THEN IF watch(first) THEN IdRun(url, SetMax(params(first)) + 3)
             ELSE IdRun(url, first + Len(be))
        ELSE IF second # 0 THEN IdRun(url, second + Len(shorts))
        ELSE Empty

\* function renderVideoRows(videos = []): one table per video; each holds the
\* thumbnail link with its img, the title and the button link
renderVideoRows(videos) ==
    [i \in 1..Len(videos) |->
        LET v == videos[i]
            url == IF "url" \in DOMAIN v THEN v["url"] ELSE Empty
            id == youtubeId(url)
            thumb == IF id # Empty
                     THEN <<"https://img.youtube.com/vi/">> \o id \o <<"/hqdefault.jpg">>
                     ELSE Empty
            title == Either(IF "title" \in DOMAIN v THEN Trim(v["title"]) ELSE Empty,
                            <<"Reference Video ", i>>)
            safeUrl == Either(url, <<"#">>)
        IN  [thumbnail |-> [href |-> safeUrl, img |-> [src |-> thumb]],
             title |-> title,
             button |-> [href |-> safeUrl]]]

MaxVideos == 2

\* the videos of a list: with and without url, with a title, a blank title or none
VideoEntries ==
    { ("url" :> u) : u \in VideoUrls }
    \cup { ("url" :> u) @@ ("title" :> t) : u \in VideoUrls, t \in { <<" ", "T", " ">>, <<" ">> } }
    \cup { ("title" :> <<"T">>) }

VideoLists == UNION { [1..n -> VideoEntries] : n \in 0..MaxVideos }

\* body.reference_videos as received
VideoInit ==
    /\ variant = "p2a"
    /\ env = [apiKey |-> TRUE, smtpHost |-> TRUE, allowedOrigins |-> Empty]
    /\ pc = "videos"
    /\ \E vs \in VideoLists :
          request = Request("POST", "", TRUE, ("reference_videos" :> vs))
    /\ scraped = NoScrape
    /\ prompt = Empty
    /\ script = Empty
    /\ response = NoResponse
    /\ calls = NoCalls
    /\ mail = NoMail
    /\ bg = "none"
    /\ raised = "none"
    /\ replies = NoReplies
    /\ scriptSections = NoSections
    /\ scriptHTML = NoRows
    /\ suspended = NoSuspended

\* renderVideoRows(reference_videos)
RenderVideoRowsStep ==
    /\ pc = "videos"
    /\ scriptHTML' = renderVideoRows(request.body["reference_videos"])
    /\ pc' = "videoRows"
    /\ UNCHANGED <<suspended, variant, env, request, scraped, prompt, script, response, calls,
                   mail, bg, raised, replies, scriptSections>>

VideoSpec == VideoInit /\ [][RenderVideoRowsStep]_vars

\* C27: renderVideoRows yields one row per video, in input order; each row
\* holds the trimmed title, or "Reference Video <position>" when the video has
\* none, and its link; when youtubeId derives an identifier the row holds the
\* thumbnail built from it, and when it derives none the row holds no
\* thumbnail image.
C27_VideoRows ==
    pc = "videoRows"
        => LET videos == request.body["reference_videos"]
               rows == scriptHTML
           IN  /\ Len(rows) = Len(videos)
               /\ \A i \in 1..Len(videos) :
                     LET v == videos[i]
                         url == IF "url" \in DOMAIN v THEN v["url"] ELSE Empty
                         named == "title" \in DOMAIN v /\ Trim(v["title"]) # Empty
                     IN  /\ rows[i].title = IF named THEN Trim(v["title"])
                                            ELSE <<"Reference Video ", i>>
                         /\ rows[i].button.href = IF url # Empty THEN url ELSE <<"#">>
                         /\ IF youtubeId(url) # Empty
                            THEN /\ "img" \in DOMAIN rows[i].thumbnail
                                 /\ rows[i].thumbnail.img.src =
                                       <<"https://img.youtube.com/vi/">> \o youtubeId(url)
                                       \o <<"/hqdefault.jpg">>
                            ELSE "img" \notin DOMAIN rows[i].thumbnail

(***************************************************************************)
(* The matches of one scan.                                                *)
(***************************************************************************)
\* the matches rx.exec returns in the loop of parseScript, in order, each with
\* the position of its label
RECURSIVE Matches(_, _)
Matches(raw, from) ==
    LET at == FirstOf({ i \in from..Len(raw) : MatchAt(raw, i).found }, 0)
    IN  IF at = 0 THEN << >>
        ELSE <<[at |-> at] @@ Exec(raw, from)>> \o Matches(raw, resumeAt(Exec(raw, from)))

\* the sections the matches ms leave behind: the last body under each label
RECURSIVE Stored(_, _)
Stored(ms, sections) ==
    IF ms = << >> THEN sections
    ELSE Stored(Tail(ms), [sections EXCEPT ![Head(ms).key] = Trim(Head(ms).body)])

\* C28: parseScript is one left-to-right pass without overlap: its result is
\* what the matches of the scan store, each match captures a body that lies
\* after its label, each match starts at or after the end of the body of the
\* one before, so no character lies in two bodies, and the result has exactly
\* the five keys HOOK, PROBLEM, SOLUTION, TRUST, CLOSE.
C28_SinglePassNoOverlap ==
    pc = "parsed"
        => LET ms == Matches(script, 1)
           IN  /\ DOMAIN scriptSections = 1..Len(SectionNames)
               /\ scriptSections \in { Stored(ms, NoSections),
                                       [NoSections EXCEPT ![3] = Trim(script)] }
               /\ \A k \in 1..Len(ms) :
                     /\ ms[k].at < ms[k].from /\ ms[k].from <= ms[k].end
                     /\ ms[k].body = SubSeq(script, ms[k].from, ms[k].end - 1)
               /\ \A k \in 1..(Len(ms) - 1) : ms[k].end <= ms[k + 1].at

\* a text whose scan finds two matches with non-empty bodies
C28_Witness ==
    /\ pc = "parsed"
    /\ Len(Matches(script, 1)) >= 2
    /\ \A k \in 1..2 : Matches(script, 1)[k].body # Empty

(***************************************************************************)
(* The allow-origin header of the handlers built on corsHeaders.           *)
(***************************************************************************)
\* C29: every response of a handler that uses corsHeaders carries a non-empty
\* Access-Control-Allow-Origin that is "*" or one of the configured origins:
\* "*" when the list holds "*", else the origin of the request when the list
\* holds it, else the first configured origin; an origin outside the list is
\* never sent back.
C29_AllowOriginFromList ==
    (IsDefaultHandler(variant) /\ Done)
        => LET list == ALLOWED_ORIGINS(env)
               name == "Access-Control-Allow-Origin"
               sent == response.headers[name]
           IN  /\ name \in DOMAIN response.headers
               /\ Len(sent) = 1 /\ sent[1] # ""
               /\ sent[1] = "*" \/ Includes(list, sent[1])
               /\ Includes(list, "*") => sent[1] = "*"
               /\ (~Includes(list, "*") /\ Includes(list, request.origin))
                     => sent[1] = request.origin
               /\ (~Includes(list, "*") /\ ~Includes(list, request.origin) /\ list # << >>)
                     => sent[1] = list[1]

\* a request from an origin outside the configured list has been answered
\* with the first configured origin
C29_Witness ==
    /\ IsDefaultHandler(variant) /\ Done
    /\ request.origin = OriginEvil
    /\ ALLOWED_ORIGINS(env) = <<OriginA>>
    /\ response.headers["Access-Control-Allow-Origin"] = <<OriginA>>

(***************************************************************************)
(* Termination.  The platform delivers the request and every outbound call *)
(* settles: each step that can be taken is eventually taken.               *)
(***************************************************************************)
\* the requests of the runs: a GET, an OPTIONS, a POST whose body does not
\* parse, and the POSTs of the two submissions
LiveRequests(v) ==
    { Request("GET", "", TRUE, << >>), Request("OPTIONS", "", TRUE, << >>) }
    \cup { Request("POST", "", p, << >>) : p \in BodyParses(v) \ {TRUE} }
    \cup { Request("POST", "", TRUE, b) : b \in ConcurrentBodies(v) }

\* the handler has been invoked
LiveInit ==
    /\ variant \in Variants
    /\ env \in Envs(variant)
    /\ pc = "method"
    /\ request \in LiveRequests(variant)
    /\ scraped = NoScrape
    /\ prompt = Empty
    /\ script = Empty
    /\ response = NoResponse
    /\ calls = NoCalls
    /\ mail = NoMail
    /\ bg = "none"
    /\ raised = "none"
    /\ replies = NoReplies
    /\ scriptSections = NoSections
    /\ scriptHTML = NoRows
    /\ suspended = NoSuspended

LiveNext ==
    \/ HandleMethod
    \/ ParseAndValidate
    \/ ScrapeWebsiteStart
    \/ \E r \in FetchReplies : WebsiteFetched(r)
    \/ ScrapeLinkedInStart
    \/ \E r \in FetchReplies : LinkedInFetched(r)
    \/ CallCompletion
    \/ \E r \in CompletionReplies : CompletionReturned(r)
    \/ \E ok \in BOOLEAN : MailReturned(ok)
    \/ \E ok \in BOOLEAN : BackgroundMailSettled(ok)

LiveSpec == LiveInit /\ [][LiveNext]_vars /\ WF_vars(LiveNext)

\* C30: every request eventually gets a response; the response is a preflight
\* answer, a 400, a 405, a 500 or a 200 and is never replaced once returned;
\* and every match of the label scan ends after the place it started from, so
\* the scan of parseScript moves forward at each turn.
C30_EveryRequestAnswered ==
    /\ <>Done
    /\ [](Done => response.status \in {200, 204, 400, 405, 500})
    /\ [][Done => (Done' /\ response' = response)]_vars
    /\ [](\A k \in 1..Len(Matches(script, 1)) :
             /\ Matches(script, 1)[k].at < resumeAt(Matches(script, 1)[k])
             /\ k > 1 => resumeAt(Matches(script, 1)[k - 1]) < resumeAt(Matches(script, 1)[k]))

\* the section-parsing handler has answered 200 after a scan that found two
\* labelled sections
C30_Witness ==
    /\ Done /\ parsesSections(variant)
    /\ response.status = 200
    /\ Len(Matches(script, 1)) = 2

====
